---- MODULE Spec2Model ----
(***************************************************************************)
(* State-machine model of the FootballPredictor component (src/src/App.tsx)*)
(* : the spin lifecycle (spin / handleDone / reveal timer / modal buttons), *)
(* the rotation-to-outcome mapping and the responsive wheel size.          *)
(*                                                                         *)
(* Angles are whole degrees and widths are whole pixels.  Strings that the *)
(* code trims are sequences of one-character strings.                      *)
(***************************************************************************)
EXTENDS Integers, Sequences, FiniteSets, TLC

VARIABLES
    team1,          \* useState<Team>  (line 18)
    team2,          \* useState<Team>  (line 22)
    spinning,       \* useState(false) (line 27)
    rotation,       \* useState(0)     (line 28)
    winner,         \* useState<Outcome | null>(null) (line 29)
    showResult,     \* useState(false) (line 30)
    wheelSize,      \* useState(380)   (line 36)
    wheelTransform, \* wheel.style.transform, in degrees (lines 104, 302)
    transitioning,  \* a CSS transform transition is running on the wheel
    listeners,      \* "transitionend" listeners registered on the wheel
    revealTimers,   \* pending setTimeout(() => setShowResult(true), 250)
    started,        \* history: number of spins started
    resolved,       \* history: number of handleDone executions
    sumIncrements,  \* history: sum of the increments of the resolved spins
    lastWidth,      \* history: the width of the last resize report
    lastOp          \* history: the handler that produced this state

vars == << team1, team2, spinning, rotation, winner, showResult, wheelSize,
           wheelTransform, transitioning, listeners, revealTimers,
           started, resolved, sumIncrements, lastWidth, lastOp >>

\* The state the spin lifecycle reads and writes.
core == << spinning, rotation, winner, showResult, wheelTransform,
           transitioning, listeners, revealTimers >>

-----------------------------------------------------------------------------
(* Bounds *)

MaxSpins == 2          \* spins started in one behaviour
MaxWidth == 700        \* largest width of the dense range of resize reports
TargetLow == 1100      \* SpecResolve draws targets from -TargetLow ..
TargetHigh == 3000     \*   .. TargetHigh
MaxTurns == 3          \* full turns added to or taken from a target

\* Random angles drawn by Math.random() * 360 (whole degrees in [0, 360)).
RandomAngles == {0, 150, 359}

\* Widths reported by the ResizeObserver in the lifecycle specification.
Widths == {0, 10000}

\* The random angle of the specification with fairness.
LiveAngles == {150}

\* Widths reported in the geometry specification.
GeometryWidths == (0 .. MaxWidth) \cup {10000}

-----------------------------------------------------------------------------
(* Strings *)

Team1Default == << "T", "e", "a", "m", " ", "1" >>
Team2Default == << "T", "e", "a", "m", " ", "2" >>
DrawLabel == << "D", "R", "A", "W" >>

\* Names typed into the two text inputs.
Team1Names == { Team1Default, << >>, << " ", "T", "e", "a", "m", " ", "1", " " >>,
                << "A" >> }
Team2Names == { Team2Default, << " " >>, << "B", " " >> }

\* Names typed in the specification that also edits the colors.
FrameTeam1Names == { Team1Default, << "A" >> }
FrameTeam2Names == { Team2Default, << "B", " " >> }

\* Colors picked in the two color inputs.
Team1Colors == { "#4AA1F3", "#000000" }
Team2Colors == { "#C8102E", "#FFFFFF" }

IsSpace(c) == c = " "

RECURSIVE TrimStart(_)
TrimStart(s) ==
    IF s = << >> THEN << >>
    ELSE IF IsSpace(Head(s)) THEN TrimStart(Tail(s))
    ELSE s

RECURSIVE TrimEnd(_)
TrimEnd(s) ==
    IF s = << >> THEN << >>
    ELSE IF IsSpace(s[Len(s)]) THEN TrimEnd(SubSeq(s, 1, Len(s) - 1))
    ELSE s

\* String.prototype.trim
Trim(s) == TrimEnd(TrimStart(s))

-----------------------------------------------------------------------------
(* Arithmetic *)

\* The JavaScript remainder: the result has the sign of the dividend.
JsMod(a, b) == IF a >= 0 THEN a % b ELSE 0 - ((0 - a) % b)

Min(a, b) == IF a < b THEN a ELSE b
Max(a, b) == IF a > b THEN a ELSE b

\* clamp with Math.max and Math.min exchanged.
clampSwapped(n, min, max) == Min(min, Max(max, n))

clamp(n, min, max) == Max(min, Min(max, n))

\* Math.floor(w * 0.98) for a whole, non-negative number of pixels.
FloorScale(w) == (w * 98) \div 100

\* Lines 51-54: the wheel size for a reported width.
TargetSize(w) == clamp(FloorScale(w), 320, 640)

-----------------------------------------------------------------------------
(* Outcomes *)

NoOutcome == [ label |-> << >>, type |-> "null" ]

\* useMemo, lines 62-69.
outcomes == << [ label |-> team1.name, type |-> "team1" ],
               [ label |-> DrawLabel,  type |-> "draw"  ],
               [ label |-> team2.name, type |-> "team2" ] >>

\* disable comparing the first name without trimming it.
disableUntrimmed ==
    \/ spinning
    \/ team1.name = << >>
    \/ team1.name = Team1Default
    \/ Trim(team2.name) = << >>
    \/ Trim(team2.name) = Team2Default

\* Lines 38-43.
disable ==
    \/ spinning
    \/ Trim(team1.name) = << >>
    \/ Trim(team1.name) = Team1Default
    \/ Trim(team2.name) = << >>
    \/ Trim(team2.name) = Team2Default

\* normalizedRotation taking the absolute value of a negative target.
normalizedRotationAbs(targetRotation) ==
    JsMod(IF targetRotation < 0 THEN 0 - targetRotation ELSE targetRotation, 360)

\* Line 113.
normalizedRotation(targetRotation) == JsMod(JsMod(targetRotation, 360) + 360, 360)

\* winningIndex reading the normalized angle directly, without counter-rotating
\* the reference frame.
winningIndexDirect(targetRotation, segments) ==
    LET segStep == 360 \div segments
    IN  JsMod(normalizedRotation(targetRotation) \div segStep, segments)

\* winningIndex giving a boundary angle to the segment that ends there.
winningIndexBoundaryBefore(targetRotation, segments) ==
    LET segStep == 360 \div segments
        effective == JsMod(360 - normalizedRotation(targetRotation), 360)
    IN  IF effective > 0 /\ effective % segStep = 0
        THEN JsMod((effective \div segStep) - 1, segments)
        ELSE JsMod(effective \div segStep, segments)

\* Lines 111-114.
winningIndex(targetRotation, segments) ==
    LET segStep == 360 \div segments
    IN  JsMod(JsMod(360 - normalizedRotation(targetRotation), 360) \div segStep,
              segments)

-----------------------------------------------------------------------------
(* spin, lines 89-123 *)

\* The handler returned without doing anything, or the disabled button
\* swallowed the click.
SpinIgnored ==
    /\ lastOp' = "spinIgnored"
    /\ UNCHANGED << team1, team2, spinning, rotation, winner, showResult,
                    wheelSize, wheelTransform, transitioning, listeners,
                    revealTimers, started, resolved, sumIncrements, lastWidth >>

\* StartSpin without setSpinning(true).
StartSpinNoFlag(fullSpins, randomAngle) ==
    LET targetRotation == rotation + (fullSpins * 360) + randomAngle
        handleDone == [ id             |-> started + 1,
                        targetRotation |-> targetRotation,
                        outcomes       |-> outcomes,
                        fullSpins      |-> fullSpins,
                        randomAngle    |-> randomAngle ]
    IN  /\ winner' = NoOutcome
        /\ showResult' = FALSE
        /\ wheelTransform' = targetRotation
        /\ transitioning' = TRUE
        /\ listeners' = Append(listeners, handleDone)
        /\ started' = started + 1
        /\ lastOp' = "spin"
        /\ UNCHANGED << team1, team2, spinning, rotation, wheelSize,
                        revealTimers, resolved, sumIncrements, lastWidth >>

\* StartSpin computing the target from zero instead of from rotation.
StartSpinFromZero(fullSpins, randomAngle) ==
    LET targetRotation == (fullSpins * 360) + randomAngle
        handleDone == [ id             |-> started + 1,
                        targetRotation |-> targetRotation,
                        outcomes       |-> outcomes,
                        fullSpins      |-> fullSpins,
                        randomAngle    |-> randomAngle ]
    IN  /\ spinning' = TRUE
        /\ winner' = NoOutcome
        /\ showResult' = FALSE
        /\ wheelTransform' = targetRotation
        /\ transitioning' = TRUE
        /\ listeners' = Append(listeners, handleDone)
        /\ started' = started + 1
        /\ lastOp' = "spin"
        /\ UNCHANGED << team1, team2, rotation, wheelSize, revealTimers,
                        resolved, sumIncrements, lastWidth >>

\* StartSpin without setWinner(null).
StartSpinKeepWinner(fullSpins, randomAngle) ==
    LET targetRotation == rotation + (fullSpins * 360) + randomAngle
        handleDone == [ id             |-> started + 1,
                        targetRotation |-> targetRotation,
                        outcomes       |-> outcomes,
                        fullSpins      |-> fullSpins,
                        randomAngle    |-> randomAngle ]
    IN  /\ spinning' = TRUE
        /\ showResult' = FALSE
        /\ wheelTransform' = targetRotation
        /\ transitioning' = TRUE
        /\ listeners' = Append(listeners, handleDone)
        /\ started' = started + 1
        /\ lastOp' = "spin"
        /\ UNCHANGED << team1, team2, rotation, winner, wheelSize,
                        revealTimers, resolved, sumIncrements, lastWidth >>

\* StartSpin calling setRotation(targetRotation) at once.
StartSpinSetsRotation(fullSpins, randomAngle) ==
    LET targetRotation == rotation + (fullSpins * 360) + randomAngle
        handleDone == [ id             |-> started + 1,
                        targetRotation |-> targetRotation,
                        outcomes       |-> outcomes,
                        fullSpins      |-> fullSpins,
                        randomAngle    |-> randomAngle ]
    IN  /\ spinning' = TRUE
        /\ winner' = NoOutcome
        /\ showResult' = FALSE
        /\ rotation' = targetRotation
        /\ wheelTransform' = targetRotation
        /\ transitioning' = TRUE
        /\ listeners' = Append(listeners, handleDone)
        /\ started' = started + 1
        /\ lastOp' = "spin"
        /\ UNCHANGED << team1, team2, wheelSize, revealTimers,
                        resolved, sumIncrements, lastWidth >>

\* Lines 92-122: the body of spin past its guard, for the two random draws.
\* The new listener is the closure handleDone: it captures targetRotation and
\* the outcomes of the render the click happened in.
StartSpin(fullSpins, randomAngle) ==
    LET targetRotation == rotation + (fullSpins * 360) + randomAngle
        handleDone == [ id             |-> started + 1,
                        targetRotation |-> targetRotation,
                        outcomes       |-> outcomes,
                        fullSpins      |-> fullSpins,
                        randomAngle    |-> randomAngle ]
    IN  /\ spinning' = TRUE
        /\ winner' = NoOutcome
        /\ showResult' = FALSE
        /\ wheelTransform' = targetRotation
        /\ transitioning' = TRUE
        /\ listeners' = Append(listeners, handleDone)
        /\ started' = started + 1
        /\ lastOp' = "spin"
        /\ UNCHANGED << team1, team2, rotation, wheelSize, revealTimers,
                        resolved, sumIncrements, lastWidth >>

\* Lines 89-90.
spin(fullSpins, randomAngle) ==
    IF spinning THEN SpinIgnored ELSE StartSpin(fullSpins, randomAngle)

\* Lines 369-372: the spin button, disabled={disable} onClick={spin}.
\* fullSpins = 6 + Math.floor(Math.random() * 3), randomAngle = Math.random() * 360.
ClickSpinAt(angles) ==
    \E fullSpins \in 6 .. 8, randomAngle \in angles :
        /\ disable \/ started < MaxSpins
        /\ IF disable THEN SpinIgnored ELSE spin(fullSpins, randomAngle)

ClickSpin == ClickSpinAt(RandomAngles)

-----------------------------------------------------------------------------
(* handleDone, lines 107-120 *)

\* The state a transitionend listener reads and writes.
LifeState ==
    [ rotation      |-> rotation,
      winner        |-> winner,
      spinning      |-> spinning,
      revealTimers  |-> revealTimers,
      listeners     |-> listeners,
      resolved      |-> resolved,
      sumIncrements |-> sumIncrements ]

\* handleDone storing the normalized angle instead of the target.
handleDoneNormalized(h, st) ==
    LET segments == Len(h.outcomes)
    IN  [ st EXCEPT
            !.rotation = normalizedRotation(h.targetRotation),
            !.winner = h.outcomes[winningIndex(h.targetRotation, segments) + 1],
            !.spinning = FALSE,
            !.revealTimers = @ + 1,
            !.listeners = SelectSeq(@, LAMBDA l : l.id # h.id),
            !.resolved = @ + 1,
            !.sumIncrements = @ + (h.fullSpins * 360) + h.randomAngle ]

\* handleDone without removeEventListener.
handleDoneKeepListener(h, st) ==
    LET segments == Len(h.outcomes)
    IN  [ st EXCEPT
            !.rotation = h.targetRotation,
            !.winner = h.outcomes[winningIndex(h.targetRotation, segments) + 1],
            !.spinning = FALSE,
            !.revealTimers = @ + 1,
            !.resolved = @ + 1,
            !.sumIncrements = @ + (h.fullSpins * 360) + h.randomAngle ]

\* handleDone without setSpinning(false).
handleDoneStaysSpinning(h, st) ==
    LET segments == Len(h.outcomes)
    IN  [ st EXCEPT
            !.rotation = h.targetRotation,
            !.winner = h.outcomes[winningIndex(h.targetRotation, segments) + 1],
            !.revealTimers = @ + 1,
            !.listeners = SelectSeq(@, LAMBDA l : l.id # h.id),
            !.resolved = @ + 1,
            !.sumIncrements = @ + (h.fullSpins * 360) + h.randomAngle ]

\* handleDone reading the outcomes of the current render instead of the ones
\* its closure captured.
handleDoneLiveOutcomes(h, st) ==
    LET segments == Len(outcomes)
    IN  [ st EXCEPT
            !.rotation = h.targetRotation,
            !.winner = outcomes[winningIndex(h.targetRotation, segments) + 1],
            !.spinning = FALSE,
            !.revealTimers = @ + 1,
            !.listeners = SelectSeq(@, LAMBDA l : l.id # h.id),
            !.resolved = @ + 1,
            !.sumIncrements = @ + (h.fullSpins * 360) + h.randomAngle ]

\* Lines 107-120, for the closure h run on the state st.
handleDone(h, st) ==
    LET segments == Len(h.outcomes)
    IN  [ st EXCEPT
            !.rotation = h.targetRotation,
            !.winner = h.outcomes[winningIndex(h.targetRotation, segments) + 1],
            !.spinning = FALSE,
            !.revealTimers = @ + 1,
            !.listeners = SelectSeq(@, LAMBDA l : l.id # h.id),
            !.resolved = @ + 1,
            !.sumIncrements = @ + (h.fullSpins * 360) + h.randomAngle ]

\* The wheel dispatches a transitionend event: the listeners registered when
\* the dispatch starts run in registration order.
RECURSIVE Dispatch(_, _)
Dispatch(ls, st) ==
    IF ls = << >> THEN st
    ELSE Dispatch(Tail(ls), handleDone(Head(ls), st))

\* A transitionend event reaches the wheel.  The render that follows writes
\* rotate(rotation) into the wheel's style when rotation changed (line 302).
TransitionEndEvent(op) ==
    LET st == Dispatch(listeners, LifeState)
    IN  /\ rotation' = st.rotation
        /\ winner' = st.winner
        /\ spinning' = st.spinning
        /\ revealTimers' = st.revealTimers
        /\ listeners' = st.listeners
        /\ resolved' = st.resolved
        /\ sumIncrements' = st.sumIncrements
        /\ wheelTransform' = IF st.rotation # rotation THEN st.rotation
                             ELSE wheelTransform
        /\ transitioning' = FALSE
        /\ lastOp' = op
        /\ UNCHANGED << team1, team2, showResult, wheelSize, started, lastWidth >>

\* The 5 s transition started by spin ends (line 103).  The 250 ms reveal
\* timer of the previous resolution (line 118) has fired by then.
TransitionEnd ==
    /\ transitioning
    /\ revealTimers = 0
    /\ TransitionEndEvent("done")

\* A duplicate or late transitionend event, delivered while no transition is
\* running on the wheel.
StrayTransitionEnd ==
    /\ ~transitioning
    /\ TransitionEndEvent("stray")

\* Line 118: the callback of setTimeout(() => setShowResult(true), 250).
RevealTimer ==
    /\ revealTimers > 0
    /\ showResult' = TRUE
    /\ revealTimers' = revealTimers - 1
    /\ lastOp' = "reveal"
    /\ UNCHANGED << team1, team2, spinning, rotation, winner, wheelSize,
                    wheelTransform, transitioning, listeners, started,
                    resolved, sumIncrements, lastWidth >>

-----------------------------------------------------------------------------
(* The result modal, lines 386-459 *)

\* Line 386: {showResult && winner && ( ... )}.
ModalShown == showResult /\ winner # NoOutcome

\* HideResult clearing the outcome as reset does.
HideResultAndReset(op) ==
    /\ ModalShown
    /\ showResult' = FALSE
    /\ winner' = NoOutcome
    /\ lastOp' = op
    /\ UNCHANGED << team1, team2, spinning, rotation, wheelSize,
                    wheelTransform, transitioning, listeners, revealTimers,
                    started, resolved, sumIncrements, lastWidth >>

\* setShowResult(false) alone: lines 392, 414 and 447.
HideResult(op) ==
    /\ ModalShown
    /\ showResult' = FALSE
    /\ lastOp' = op
    /\ UNCHANGED << team1, team2, spinning, rotation, winner, wheelSize,
                    wheelTransform, transitioning, listeners, revealTimers,
                    started, resolved, sumIncrements, lastWidth >>

ClickBackdrop == HideResult("backdrop")   \* line 392
ClickCloseX   == HideResult("closeX")     \* lines 412-418
ClickClose    == HideResult("close")      \* lines 446-451

\* Lines 125-128.
reset ==
    /\ winner' = NoOutcome
    /\ showResult' = FALSE

\* Lines 437-445: the SPIN AGAIN button, setShowResult(false); reset().
ClickSpinAgain ==
    /\ ModalShown
    /\ reset
    /\ lastOp' = "spinAgain"
    /\ UNCHANGED << team1, team2, spinning, rotation, wheelSize,
                    wheelTransform, transitioning, listeners, revealTimers,
                    started, resolved, sumIncrements, lastWidth >>

-----------------------------------------------------------------------------
(* Inputs and resize reports *)

\* Line 204.
SetTeam1Name(n) ==
    /\ n # team1.name
    /\ team1' = [ team1 EXCEPT !.name = n ]
    /\ lastOp' = "name1"
    /\ UNCHANGED << team2, spinning, rotation, winner, showResult, wheelSize,
                    wheelTransform, transitioning, listeners, revealTimers,
                    started, resolved, sumIncrements, lastWidth >>

\* Line 224.
SetTeam2Name(n) ==
    /\ n # team2.name
    /\ team2' = [ team2 EXCEPT !.name = n ]
    /\ lastOp' = "name2"
    /\ UNCHANGED << team1, spinning, rotation, winner, showResult, wheelSize,
                    wheelTransform, transitioning, listeners, revealTimers,
                    started, resolved, sumIncrements, lastWidth >>

\* Line 197.
SetTeam1Color(c) ==
    /\ c # team1.color
    /\ team1' = [ team1 EXCEPT !.color = c ]
    /\ lastOp' = "color1"
    /\ UNCHANGED << team2, spinning, rotation, winner, showResult, wheelSize,
                    wheelTransform, transitioning, listeners, revealTimers,
                    started, resolved, sumIncrements, lastWidth >>

\* Line 217.
SetTeam2Color(c) ==
    /\ c # team2.color
    /\ team2' = [ team2 EXCEPT !.color = c ]
    /\ lastOp' = "color2"
    /\ UNCHANGED << team1, spinning, rotation, winner, showResult, wheelSize,
                    wheelTransform, transitioning, listeners, revealTimers,
                    started, resolved, sumIncrements, lastWidth >>

\* Resize dropping a report of non-positive width.
ResizeSkipNonPositive(w) ==
    /\ wheelSize' = IF w <= 0 THEN wheelSize ELSE TargetSize(w)
    /\ lastWidth' = w
    /\ lastOp' = "resize"
    /\ UNCHANGED << team1, team2, spinning, rotation, winner, showResult,
                    wheelTransform, transitioning, listeners, revealTimers,
                    started, resolved, sumIncrements >>

\* Lines 49-56: the ResizeObserver callback for a report of width w
\* (a missing measurement is w = 0).
Resize(w) ==
    /\ wheelSize' = TargetSize(w)
    /\ lastWidth' = w
    /\ lastOp' = "resize"
    /\ UNCHANGED << team1, team2, spinning, rotation, winner, showResult,
                    wheelTransform, transitioning, listeners, revealTimers,
                    started, resolved, sumIncrements >>

-----------------------------------------------------------------------------
(* Specifications *)

\* Lines 18-36.
Init ==
    /\ team1 = [ name |-> Team1Default, color |-> "#4AA1F3" ]
    /\ team2 = [ name |-> Team2Default, color |-> "#C8102E" ]
    /\ spinning = FALSE
    /\ rotation = 0
    /\ winner = NoOutcome
    /\ showResult = FALSE
    /\ wheelSize = 380
    /\ wheelTransform = 0
    /\ transitioning = FALSE
    /\ listeners = << >>
    /\ revealTimers = 0
    /\ started = 0
    /\ resolved = 0
    /\ sumIncrements = 0
    /\ lastWidth = 0
    /\ lastOp = "init"

Next ==
    \/ ClickSpin
    \/ TransitionEnd
    \/ StrayTransitionEnd
    \/ RevealTimer
    \/ ClickBackdrop
    \/ ClickCloseX
    \/ ClickClose
    \/ ClickSpinAgain
    \/ \E n \in Team1Names : SetTeam1Name(n)
    \/ \E n \in Team2Names : SetTeam2Name(n)
    \/ \E w \in Widths : Resize(w)

Spec == Init /\ [][Next]_vars

\* Every handler of the component, the color inputs included, with fewer names.
NextFrame ==
    \/ ClickSpin
    \/ TransitionEnd
    \/ StrayTransitionEnd
    \/ RevealTimer
    \/ ClickBackdrop
    \/ ClickCloseX
    \/ ClickClose
    \/ ClickSpinAgain
    \/ \E n \in FrameTeam1Names : SetTeam1Name(n)
    \/ \E n \in FrameTeam2Names : SetTeam2Name(n)
    \/ \E c \in Team1Colors : SetTeam1Color(c)
    \/ \E c \in Team2Colors : SetTeam2Color(c)
    \/ \E w \in Widths : Resize(w)

SpecFrame == Init /\ [][NextFrame]_vars

\* Every handler of the component, with one random angle.
NextLive ==
    \/ ClickSpinAt(LiveAngles)
    \/ TransitionEnd
    \/ StrayTransitionEnd
    \/ RevealTimer
    \/ ClickBackdrop
    \/ ClickCloseX
    \/ ClickClose
    \/ ClickSpinAgain
    \/ \E n \in FrameTeam1Names : SetTeam1Name(n)
    \/ \E n \in FrameTeam2Names : SetTeam2Name(n)
    \/ \E c \in Team1Colors : SetTeam1Color(c)
    \/ \E c \in Team2Colors : SetTeam2Color(c)
    \/ \E w \in Widths : Resize(w)

\* The browser ends every transition it started and runs every timer it was
\* given: the completion event and the reveal timer are weakly fair.
SpecLive ==
    /\ Init
    /\ [][NextLive]_vars
    /\ WF_vars(TransitionEnd)
    /\ WF_vars(RevealTimer)

\* A spin in flight whose target is any integer of the range: the state
\* handleDone runs in, for the rotation-to-outcome mapping.
InitResolve ==
    \E t \in (0 - TargetLow) .. TargetHigh :
        /\ team1 = [ name |-> << "A" >>, color |-> "#4AA1F3" ]
        /\ team2 = [ name |-> << "B", " " >>, color |-> "#C8102E" ]
        /\ spinning = TRUE
        /\ rotation = 0
        /\ winner = NoOutcome
        /\ showResult = FALSE
        /\ wheelSize = 380
        /\ wheelTransform = t
        /\ transitioning = TRUE
        /\ listeners = << [ id             |-> 1,
                            targetRotation |-> t,
                            outcomes       |-> outcomes,
                            fullSpins      |-> 0,
                            randomAngle    |-> t ] >>
        /\ revealTimers = 0
        /\ started = 1
        /\ resolved = 0
        /\ sumIncrements = 0
        /\ lastWidth = 0
        /\ lastOp = "spin"

NextResolve ==
    \/ TransitionEnd
    \/ RevealTimer

SpecResolve == InitResolve /\ [][NextResolve]_vars

\* Resize reports over a dense range of widths.
NextGeometry == \E w \in GeometryWidths : Resize(w)

SpecGeometry == Init /\ [][NextGeometry]_vars

-----------------------------------------------------------------------------
(* Properties *)

OutcomeTypes == << "team1", "draw", "team2" >>

\* The index the specification gives for a target rotation, with the
\* mathematical (floored) modulus.
SpecIndex(t) == (((360 - (((t % 360) + 360) % 360)) % 360) \div 120) % 3

\* Either entity name is, after trimming, empty or its placeholder default.
NamesInvalid ==
    \/ Trim(team1.name) \in { << >>, Team1Default }
    \/ Trim(team2.name) \in { << >>, Team2Default }

\* The step came from a click on the spin button.
SpinRequested == lastOp' \in { "spin", "spinIgnored" }

\* C1: for every integer target rotation t, resolving the spin stores the
\* outcome at index floor(((360 - ((t mod 360) + 360) mod 360) mod 360) / 120)
\* mod 3 of [EntityA, Draw, EntityB]; the outcome is never null and the index
\* is in 0..2; t = 0 gives EntityA, t = 150 Draw and t = 2950 EntityB.
C1_ResolveIndex ==
    lastOp = "done" =>
        /\ SpecIndex(rotation) \in 0 .. 2
        /\ winner # NoOutcome
        /\ winner.type = OutcomeTypes[SpecIndex(rotation) + 1]
        /\ winner = outcomes[SpecIndex(rotation) + 1]
        /\ (rotation = 0 => winner.type = "team1")
        /\ (rotation = 150 => winner.type = "draw")
        /\ (rotation = 2950 => winner.type = "team2")

C1_Witness ==
    /\ lastOp = "done"
    /\ rotation = 0 - 250
    /\ winner.type = "team2"

\* C2: at most one spin is in flight in every state, and a spin request made
\* while spinning changes nothing: no new target, no further completion
\* handler, spinning, winner, showResult and rotation as they were.
C2_AtMostOneSpin ==
    /\ [](Len(listeners) <= 1 /\ started - resolved <= 1)
    /\ [][(spinning /\ SpinRequested) =>
            (lastOp' = "spinIgnored" /\ UNCHANGED core)]_vars

C2_Witness ==
    /\ lastOp = "spinIgnored"
    /\ spinning
    /\ ~NamesInvalid
    /\ Len(listeners) = 1

\* C3: in the state right after a spin's outcome is stored the result is not
\* revealed: Resolved(hidden) comes before Resolved(revealed).
C3_HiddenBeforeRevealed == lastOp = "done" => ~showResult

\* C4: right after a spin resolves, the stored rotation is exactly the target
\* that was handed to the wheel when the spin started, not its value mod 360.
C4_RotationIsTarget ==
    [][lastOp' = "done" => rotation' = wheelTransform]_vars

C4_Witness ==
    /\ lastOp = "done"
    /\ resolved = 1
    /\ rotation = (8 * 360) + 359
    /\ wheelTransform = rotation

\* C5: from rotation 0, after N completed spins the rotation is the sum of the
\* N increments fullSpins*360 + randomAngle; it never decreases and is never
\* reduced mod 360.
C5_MonotonicAccumulation ==
    /\ [](rotation = sumIncrements /\ rotation >= resolved * 6 * 360)
    /\ [][rotation' >= rotation]_vars

C5_Witness ==
    /\ resolved = 2
    /\ lastOp = "done"
    /\ rotation = sumIncrements
    /\ rotation = (6 * 360) + 150 + (8 * 360) + 359

\* C6: while either entity name is, after trimming, empty or its placeholder
\* default, a spin request is a no-op: no spin starts, no target is generated
\* and no completion handler is registered, whatever the random draws.
C6_InvalidNamesNoSpin ==
    [][(NamesInvalid /\ SpinRequested) =>
            (lastOp' = "spinIgnored" /\ started' = started /\ UNCHANGED core)]_vars

C6_Witness ==
    /\ lastOp = "spinIgnored"
    /\ ~spinning
    /\ team1.name # Team1Default
    /\ Trim(team1.name) = Team1Default
    /\ Trim(team2.name) = << "B" >>

\* C7: a completion signal delivered when no spin is in flight changes
\* neither rotation, spinning, the outcome nor the reveal flag and schedules
\* no reveal timer; each spin is resolved exactly once.
C7_StraySignalIgnored ==
    /\ [][lastOp' = "stray" => UNCHANGED core]_vars
    /\ [](resolved <= started /\ (~spinning => resolved = started))

C7_Witness ==
    /\ lastOp = "stray"
    /\ resolved = 1
    /\ started = 1
    /\ winner # NoOutcome

\* The wheel size the specification gives for a width.
SpecSize(w) ==
    LET f == (w * 98) \div 100
    IN  IF f < 320 THEN 320 ELSE IF f > 640 THEN 640 ELSE f

\* C8: the wheel size set by a resize report of width w is
\* clamp(floor(w * 0.98), 320, 640), so the wheel size is in [320, 640] in
\* every state, the initial one included; w = 10000 gives 640, w = 50 gives 320.
C8_WheelSizeClamped ==
    /\ wheelSize \in 320 .. 640
    /\ lastOp = "resize" => wheelSize = SpecSize(lastWidth)
    /\ (lastOp = "resize" /\ lastWidth = 10000) => wheelSize = 640
    /\ (lastOp = "resize" /\ lastWidth = 50) => wheelSize = 320

C8_Witness ==
    /\ lastOp = "resize"
    /\ lastWidth = 500
    /\ wheelSize = 490

\* C9, as stated: a resize report of non-positive width leaves the wheel size
\* as it was.
C9_NonPositiveIgnored ==
    [][(lastOp' = "resize" /\ lastWidth' <= 0) => wheelSize' = wheelSize]_vars

\* C9, amended: a resize report of non-positive width sets the wheel size to
\* the lower clamp, 320.
C9_NonPositiveGivesMinimum ==
    (lastOp = "resize" /\ lastWidth <= 0) => wheelSize = 320

C9_Witness ==
    /\ lastOp = "resize"
    /\ lastWidth = 0
    /\ wheelSize = 320

\* C10: right after the spin-again action, with valid entity names, the
\* lifecycle is Spinning with a new target and a completion handler registered.
C10_SpinAgainStartsSpin ==
    (lastOp = "spinAgain" /\ ~NamesInvalid) =>
        (spinning /\ transitioning /\ Len(listeners) = 1)

\* The step came from one of the three dismiss controls of the modal.
Dismissed == lastOp' \in { "backdrop", "closeX", "close" }

\* C11, as stated: from Resolved(revealed), every dismiss action (backdrop,
\* close-X, Close) returns to Idle with the rotation unchanged and the stored
\* outcome cleared.
C11_DismissClearsOutcome ==
    [][Dismissed =>
        (~spinning' /\ rotation' = rotation /\ winner' = NoOutcome)]_vars

\* C11, amended: every dismiss action hides the result and leaves the lifecycle
\* not spinning, with the rotation and the stored outcome unchanged; the
\* outcome stays stored after the dismiss.
C11_DismissKeepsOutcome ==
    [][Dismissed =>
        /\ ModalShown
        /\ ~showResult'
        /\ ~spinning'
        /\ rotation' = rotation
        /\ winner' = winner
        /\ winner' # NoOutcome]_vars

C11_Witness ==
    /\ lastOp = "backdrop"
    /\ ~showResult
    /\ ~spinning
    /\ winner.type = "draw"
    /\ rotation = (6 * 360) + 150

\* C12: every spin that starts runs to completion.  With the completion event
\* weakly fair, a spin being in flight leads to the state in which that spin
\* has resolved (not spinning, outcome stored, rotation updated), whatever
\* name, color, resize, dismiss, reset or spin requests come in between.
C12_SpinCompletes ==
    spinning ~>
        (/\ lastOp = "done"
         /\ resolved = started
         /\ ~spinning
         /\ winner # NoOutcome
         /\ rotation = wheelTransform
         /\ rotation >= started * 6 * 360)

C12_Witness ==
    /\ lastOp = "done"
    /\ resolved = 2
    /\ started = 2
    /\ ~spinning
    /\ team1.color = "#000000"
    /\ wheelSize = 640
    /\ rotation = (6 * 360) + 150 + (8 * 360) + 150

\* Resolved(hidden): an outcome is stored and its reveal timer is pending.
ResolvedHidden ==
    /\ ~spinning
    /\ winner # NoOutcome
    /\ ~showResult
    /\ revealTimers > 0

\* C13: once a spin has resolved into Resolved(hidden), no new spin starts and
\* the outcome is not cleared before the reveal: the next lifecycle state is
\* Resolved(revealed) for the same outcome.
C13_HiddenThenRevealed ==
    [][ResolvedHidden =>
        /\ ~spinning'
        /\ winner' = winner
        /\ (showResult' => lastOp' = "reveal")]_vars

\* C14: entity-name edits made while a spin is in flight do not affect it: the
\* outcome stored at resolution is the segment, with the label it had when the
\* spin started, at the index of the spin's target, and the stored rotation is
\* that target.
C14_NamesSnapshotted ==
    [][lastOp' = "done" =>
        LET h == Head(listeners)
        IN  /\ winner' = h.outcomes[SpecIndex(h.targetRotation) + 1]
            /\ winner'.type = OutcomeTypes[SpecIndex(wheelTransform) + 1]
            /\ rotation' = wheelTransform
            /\ rotation' = h.targetRotation]_vars

C14_Witness ==
    /\ lastOp = "done"
    /\ winner.type = "team1"
    /\ winner.label = << "A" >>
    /\ team1.name = << >>

\* C15: while a spin is in flight no outcome is stored or visible: spinning
\* implies that winner is none, hence the result surface is not shown.
C15_NoOutcomeWhileSpinning ==
    spinning => (winner = NoOutcome /\ ~ModalShown)

C15_Witness ==
    /\ spinning
    /\ resolved = 1
    /\ started = 2
    /\ winner = NoOutcome
    /\ showResult

\* The target rotation reduced into 0 .. 359.
SpecNormalized(t) == ((t % 360) + 360) % 360

\* C16, as stated: when the normalized rotation is exactly 0, 120 or 240 the
\* winner is the segment whose span starts at the normalized angle.
C16_BoundaryByNormalized ==
    (lastOp = "done" /\ SpecNormalized(rotation) % 120 = 0) =>
        winner.type = OutcomeTypes[(SpecNormalized(rotation) \div 120) + 1]

\* C16, amended: when the normalized rotation is exactly 0, 120 or 240 the
\* winner is the segment whose span starts at the effective angle
\* (360 - normalized) mod 360: EntityA for 0, EntityB for 120, Draw for 240;
\* one degree further the previous segment of the effective frame wins.
C16_BoundaryByEffective ==
    lastOp = "done" =>
        /\ SpecNormalized(rotation) = 0   => winner.type = "team1"
        /\ SpecNormalized(rotation) = 120 => winner.type = "team2"
        /\ SpecNormalized(rotation) = 240 => winner.type = "draw"
        /\ SpecNormalized(rotation) = 1   => winner.type = "team2"
        /\ SpecNormalized(rotation) = 121 => winner.type = "draw"
        /\ SpecNormalized(rotation) = 241 => winner.type = "team1"

C16_Witness ==
    /\ lastOp = "done"
    /\ rotation = (6 * 360) + 120
    /\ winner.type = "team2"

\* C17: the cumulative rotation is written only by spin resolution: starting a
\* spin, a rejected spin request, the reveal timer, dismiss, spin-again, name
\* and color edits and resize reports leave it unchanged, and the value a
\* starting spin adds its increment to is the one the last resolution wrote
\* (or the initial 0).
C17_RotationOnlyByResolve ==
    [][/\ lastOp' # "done" => rotation' = rotation
       /\ lastOp' = "spin" =>
            LET h == listeners'[Len(listeners')]
            IN  /\ h.targetRotation - ((h.fullSpins * 360) + h.randomAngle)
                     = wheelTransform
                /\ wheelTransform = sumIncrements]_vars

C17_Witness ==
    /\ lastOp = "spin"
    /\ started = 2
    /\ resolved = 1
    /\ rotation = (6 * 360) + 150
    /\ wheelTransform = rotation + (7 * 360) + 359
    /\ team2.color = "#FFFFFF"
    /\ wheelSize = 640

\* C18: the reveal flag is set only when an outcome is stored: showResult
\* implies that winner is not none.
C18_RevealedHasOutcome == showResult => winner # NoOutcome

\* C19: the winning index depends only on the target rotation modulo 360:
\* resolving t + 360*k selects the same segment as resolving t, for every
\* number k of full turns.
C19_IndexPeriodic ==
    lastOp = "done" =>
        \A k \in (0 - MaxTurns) .. MaxTurns :
            /\ winningIndex(rotation + (360 * k), 3) \in 0 .. 2
            /\ OutcomeTypes[winningIndex(rotation + (360 * k), 3) + 1]
                 = winner.type

C19_Witness ==
    /\ lastOp = "done"
    /\ rotation = 70 - 360
    /\ winner.type = "team2"
    /\ winningIndex(70 + (8 * 360), 3) = 2

====
